---- MODULE Spec2Model ----
(***************************************************************************)
(* Model of the RAG chat storage service: the generic repository           *)
(* (app/repositories/base.py), its session and message specialisations,    *)
(* the route handlers of app/routes and the API-key dependency of          *)
(* app/utils/auth.py, over a relational store with the two tables          *)
(* chat_sessions and messages (app/database).                              *)
(*                                                                         *)
(* Spec: requests are served one at a time; every action is one whole      *)
(* request (dependency resolution, route handler, repository method,       *)
(* store transaction, response projection) that the rate limiter admits.   *)
(* SpecConc: add-message and delete-session requests run as concurrent     *)
(* tasks that interleave at their store round trips.                       *)
(* SpecUpd: update-session requests run as concurrent tasks.               *)
(* SpecLimit: requests from client addresses pass the rate limiter, with   *)
(* the clock running.                                                      *)
(* SpecClock: requests with the valid key, with the clock running.         *)
(* SpecStartup: the process start from its environment, then requests.     *)
(* SpecRace: update-session and delete-session requests run as concurrent  *)
(* tasks.                                                                  *)
(* SpecList: a get-messages request interleaves its two statements with    *)
(* add-message and delete-session requests.                                *)
(* SpecSession: requests as tasks between the steps of get_db, with the    *)
(* store sessions the session factory makes.                               *)
(***************************************************************************)
EXTENDS Integers, Sequences, FiniteSets, TLC

VARIABLES
    API_KEY,        \* app/utils/auth.py: os.getenv("API_KEY")
    chat_sessions,  \* committed rows of table chat_sessions (set; id is the key)
    messages,       \* committed rows of table messages, in insertion order
    drawn,          \* uuid4 values given to rows so far, per table
    now,            \* the wall clock read by utcnow_naive
    resp,           \* the HTTP response of the last request answered
    tx,             \* per request task: where it is suspended, and its
                    \* store session's open transaction
    deleted,        \* history: ids of the sessions deleted so far
    limiter,        \* the rate limiters' storage: per limiter, client
                    \* address and path, the hit counter and its expiry
    reached,        \* history: per client address and route, how many
                    \* requests entered the route handler at each clock tick
    process,        \* the server process: its environment and how far its
                    \* start has come
    commits,        \* history: the update transactions in commit order
    listed,         \* history: the pages of one session answered with one
                    \* page_size since the last write
    db_sessions     \* the store sessions AsyncSessionLocal() has made, and
                    \* which of them are open

\* the variables only the specifications below Spec and SpecConc change
aside == <<limiter, reached, process, commits, listed, db_sessions>>

vars == <<API_KEY, chat_sessions, messages, drawn, now, resp, tx, deleted,
          limiter, reached, process, commits, listed, db_sessions>>

-----------------------------------------------------------------------------
(* Bounds of the model *)

MaxSessions == 2        \* uuid4 values available to chat_sessions.id
MaxMessages == 2        \* uuid4 values available to messages.id
MaxTime == 1            \* the clock runs 0..MaxTime
MaxPage == 2            \* page query parameter ranges over 0..MaxPage
MaxPageSize == 2        \* page_size query parameter ranges over 1..MaxPageSize
MaxTasks == 2           \* requests in flight at the same time
MaxOtherHits == 2       \* requests of the second client the limiter counts
MaxUpdates == 2            \* update transactions the concurrent updates run
MaxDbSessions == 3         \* store sessions made in SpecSession

-----------------------------------------------------------------------------
(* Values *)

\* Python None / SQL NULL, and a present value
None == <<>>
Some(v) == <<v>>

SessionUuids == 1..MaxSessions
MessageUuids == 1..MaxMessages

\* Identifier strings a caller can put in the path.  "canon" is the
\* lower-case hyphenated form str(uuid) produces; "upper" is another spelling
\* of the same UUID that uuid.UUID() accepts; "malformed" is a string
\* uuid.UUID() rejects (wrong length, or not hexadecimal).
IdStrings ==
    ({"canon"} \X SessionUuids) \cup {<<"upper", 1>>, <<"malformed", 0>>}

\* the shape of an identifier string, as the caller sees it
Malformed(s) == s[1] = "malformed"
WellFormed(s) == s[1] \in {"canon", "upper"}

\* a parser that takes a malformed string for the nil UUID instead of raising
UuidParseNil(s) == Some(s[2])

\* uuid.UUID(s): Some(uuid), or None for ValueError
UuidParse(s) ==
    IF s[1] \in {"canon", "upper"} THEN Some(s[2]) ELSE None

\* str(uuid)
UuidStr(u) == <<"canon", u>>

\* the process start time, at which app/models/message.py is imported
StartTime == 0

CreateNames == {None, Some("a")}
UserIds == {"u1"}
UpdateNames == {None, Some("b")}
OptBools == {None, Some(TRUE), Some(FALSE)}

\* ChatSessionCreate instances
ChatSessionCreate == [name : CreateNames, user_id : UserIds]

\* ChatSessionUpdate instances: the fields the caller set (model_fields_set)
\* and the field values; a field not set holds its default None
ChatSessionUpdate ==
    {d \in [fields_set : SUBSET {"name", "is_favorite"},
            name : UpdateNames, is_favorite : OptBools] :
        /\ ("name" \notin d.fields_set => d.name = None)
        /\ ("is_favorite" \notin d.fields_set => d.is_favorite = None)}

\* Message (pydantic) instances as parsed from the request body; timestamp
\* defaults to the value computed once when the class body was evaluated
MessageTimestampDefault == StartTime

Message ==
    {[sender |-> "user", content |-> "hi", context |-> None,
      timestamp |-> MessageTimestampDefault, session_id |-> None],
     [sender |-> "assistant", content |-> "yo", context |-> Some("ctx"),
      timestamp |-> MaxTime, session_id |-> Some(UuidStr(1))]}

\* the message bodies the one-request-at-a-time specification sends
PlainMessages == {m \in Message : m.context = None}

\* X-API-Key header values: absent, the secret, another key
Headers == {None, Some("secret"), Some("wrong")}

Pages == 0..MaxPage
PageSizes == 1..MaxPageSize

Min(a, b) == IF a < b THEN a ELSE b
Max(a, b) == IF a > b THEN a ELSE b

\* the sum of f over the subset D of its domain
RECURSIVE Sum(_, _)
Sum(f, D) ==
    IF D = {} THEN 0
    ELSE LET d == CHOOSE d \in D : TRUE IN f[d] + Sum(f, D \ {d})

-----------------------------------------------------------------------------
(* Responses *)

\* what a request did: the response, and how far the request got
\*   dbcalls : number of store round trips the request made
\*   repo    : whether a repository method was entered
Response(op, status, body, dbcalls, repo) ==
    [op |-> op, status |-> status, body |-> body, dbcalls |-> dbcalls,
     repo |-> repo]

\* raise HTTPException(status_code, detail), seen from inside a repository
\* method or handler: the status, the body and the store round trips so far
HTTPException(status, detail, dbcalls) ==
    [status |-> status, body |-> [detail |-> detail], dbcalls |-> dbcalls]

Returned(body, dbcalls) ==
    [status |-> 200, body |-> body, dbcalls |-> dbcalls]

\* the database as a repository method sees and leaves it
Db(S, M) == [chat_sessions |-> S, messages |-> M]

\* the outcome of a handler: the store it leaves and what it answers
Out(db, r) == [db |-> db, r |-> r]

-----------------------------------------------------------------------------
(* Schemas: app/models, app/database *)

\* BaseRepository._prepare_data: every UUID-typed value becomes its string
prepare_data(row) ==
    [k \in DOMAIN row |->
        IF k \in {"id", "session_id"} THEN UuidStr(row[k]) ELSE row[k]]

\* ChatSessionResponse.model_validate: is_favorite is a bool, not Optional,
\* so None is a ValidationError (a ValueError); result Some(model) or None
ChatSessionResponse_validate(d) ==
    IF d.is_favorite = None THEN None
    ELSE Some([id |-> d.id, name |-> d.name, user_id |-> d.user_id,
               is_favorite |-> d.is_favorite[1],
               created_at |-> d.created_at, updated_at |-> d.updated_at])

\* MessageResponse.model_validate: every required field of a stored message
\* is present; context is Optional
MessageResponse_validate(d) ==
    Some([id |-> d.id, session_id |-> d.session_id, sender |-> d.sender,
          content |-> d.content, context |-> d.context,
          timestamp |-> d.timestamp])

\* data.model_dump(): every field, set by the caller or not
model_dump_all(data) ==
    [k \in {"name", "is_favorite"} |-> data[k]]

\* data.model_dump(exclude_unset=True)
model_dump_exclude_unset(data) ==
    [k \in data.fields_set |-> data[k]]

\* INSERT INTO chat_sessions: column defaults of app/database/session.py
InsertChatSession(values, u, t) ==
    [id |-> u, name |-> values.name, user_id |-> values.user_id,
     is_favorite |-> Some(FALSE), created_at |-> t, updated_at |-> t]

\* an UPDATE of a table whose updated_at has no onupdate
UpdateChatSessionNoOnupdate(row, values, t) ==
    [c \in DOMAIN row |-> IF c \in DOMAIN values THEN values[c] ELSE row[c]]

\* UPDATE chat_sessions SET <values> [, updated_at = onupdate()] on one row
UpdateChatSession(row, values, t) ==
    [c \in DOMAIN row |->
        IF c \in DOMAIN values THEN values[c]
        ELSE IF c = "updated_at" THEN t
        ELSE row[c]]

\* a DELETE whose cascade takes the messages of every session
DeleteChatSessionAllMessages(db, u) ==
    Db({r \in db.chat_sessions : r.id # u}, <<>>)

\* the DELETE without the cascade: the messages of the session stay
DeleteChatSessionNoCascade(db, u) ==
    Db({r \in db.chat_sessions : r.id # u}, db.messages)

\* DELETE FROM chat_sessions WHERE id = u, with the ON DELETE CASCADE of
\* messages.session_id
DeleteChatSession(db, u) ==
    Db({r \in db.chat_sessions : r.id # u},
       SelectSeq(db.messages, LAMBDA m : m.session_id # u))

\* the foreign key messages.session_id -> chat_sessions.id
ForeignKeyHolds(db, u) == \E r \in db.chat_sessions : r.id = u

SelectChatSession(db, u) == {r \in db.chat_sessions : r.id = u}

\* an id generator that can repeat a value it produced before
Uuid4Repeating(space, used) == space

\* uuid.uuid4: a value not handed out before (for one table)
Uuid4(space, used) == space \ used

-----------------------------------------------------------------------------
(* BaseRepository, bound to ChatSession / Message: app/repositories *)

\* BaseRepository.create for ChatSessionRepository.  u is the uuid4 drawn for
\* the id default, t the clock.  add, flush (INSERT), commit, refresh.
create_ChatSession(db, data, u, t) ==
    LET db_instance == InsertChatSession(data, u, t)
        v == ChatSessionResponse_validate(prepare_data(db_instance))
    IN  IF \E r \in db.chat_sessions : r.id = u
        THEN \* primary key violation at flush: rollback
             Out(db, HTTPException(500, "Failed to create chatsession", 1))
        ELSE Out(Db(db.chat_sessions \cup {db_instance}, db.messages),
                 Returned(v[1], 3))

\* The row BaseRepository.create hands to the store for a Message, and the
\* store's verdict at flush.  data.session_id is the path string; the store
\* parses it when it binds the UUID column.  An unparsable string or a
\* foreign-key violation fails the INSERT: None.
FlushMessage(db, data, u) ==
    LET sid == IF data.session_id = None THEN None
               ELSE UuidParse(data.session_id[1])
    IN  IF sid = None \/ ~ForeignKeyHolds(db, sid[1])
        THEN None
        ELSE Some([id |-> u, session_id |-> sid[1], sender |-> data.sender,
                   content |-> data.content, context |-> data.context,
                   timestamp |-> data.timestamp])

\* BaseRepository.create for MessageRepository: add, flush (INSERT), commit,
\* refresh; any exception rolls back and is re-raised as 500
create_Message(db, data, u, t) ==
    LET flushed == FlushMessage(db, data, u) IN
    IF flushed = None
    THEN Out(db, HTTPException(500, "Failed to create message", 1))
    ELSE LET db_instance == flushed[1]
             v == MessageResponse_validate(prepare_data(db_instance))
         IN  Out(Db(db.chat_sessions, Append(db.messages, db_instance)),
                 Returned(v[1], 3))

\* BaseRepository.get
get(db, id) ==
    LET id_value == UuidParse(id) IN
    IF id_value = None
    THEN Out(db, HTTPException(400, "Invalid ID format", 0))
    ELSE LET found == SelectChatSession(db, id_value[1]) IN
         IF found = {}
         THEN Out(db, HTTPException(404, "ChatSession not found", 1))
         ELSE LET db_instance == CHOOSE r \in found : TRUE
                  v == ChatSessionResponse_validate(prepare_data(db_instance))
              IN  IF v = None
                  THEN \* ValidationError is a ValueError: except ValueError
                       Out(db, HTTPException(400, "Invalid ID format", 1))
                  ELSE Out(db, Returned(v[1], 1))

\* BaseRepository.update: select, UPDATE, commit, refresh, then the
\* response projection (after the commit)
update(db, id, data, t) ==
    LET id_value == UuidParse(id) IN
    IF id_value = None
    THEN Out(db, HTTPException(400, "Invalid ID format", 0))
    ELSE LET found == SelectChatSession(db, id_value[1]) IN
         IF found = {}
         THEN Out(db, HTTPException(404, "ChatSession not found", 1))
         ELSE LET old == CHOOSE r \in found : TRUE
                  update_data == model_dump_exclude_unset(data)
                  db_instance == UpdateChatSession(old, update_data, t)
                  committed == Db((db.chat_sessions \ {old}) \cup {db_instance},
                                  db.messages)
                  v == ChatSessionResponse_validate(prepare_data(db_instance))
              IN  IF v = None
                  THEN Out(committed,
                           HTTPException(400, "Invalid ID format", 4))
                  ELSE Out(committed, Returned(v[1], 4))

\* a delete that acknowledges an id it did not find
delete_idempotent(db, id) ==
    LET id_value == UuidParse(id) IN
    IF id_value = None
    THEN Out(db, HTTPException(400, "Invalid ID format", 0))
    ELSE Out(DeleteChatSession(db, id_value[1]),
             Returned([message |-> "ChatSession deleted successfully"], 2))

\* BaseRepository.delete: select, DELETE (cascading), commit
delete(db, id) ==
    LET id_value == UuidParse(id) IN
    IF id_value = None
    THEN Out(db, HTTPException(400, "Invalid ID format", 0))
    ELSE LET found == SelectChatSession(db, id_value[1]) IN
         IF found = {}
         THEN Out(db, HTTPException(404, "ChatSession not found", 1))
         ELSE Out(DeleteChatSession(db, id_value[1]),
                  Returned([message |-> "ChatSession deleted successfully"], 2))

\* SELECT ... FROM messages WHERE session_id = u, in the table's row order
MessagesOf(db, u) == SelectSeq(db.messages, LAMBDA m : m.session_id = u)

\* a slice that starts one row early
OffsetLimitOffByOne(rows, off, lim) ==
    SubSeq(rows, Max(off, 1), Min(off + lim, Len(rows)))

\* OFFSET off LIMIT lim over a result
OffsetLimit(rows, off, lim) ==
    SubSeq(rows, off + 1, Min(off + lim, Len(rows)))

\* MessageRepository.get_by_session_id: count query, then slice query
get_by_session_id(db, session_id, page, page_size) ==
    LET session_id_value == UuidParse(session_id) IN
    IF session_id_value = None
    THEN Out(db, HTTPException(400, "Invalid session ID", 0))
    ELSE LET rows == MessagesOf(db, session_id_value[1])
             total == Len(rows)
             off == (page - 1) * page_size
         IN  IF off < 0 \/ page_size < 0
             THEN \* the store rejects a negative OFFSET or LIMIT
                  Out(db, HTTPException(500, "Failed to retrieve messages", 2))
             ELSE LET slice == OffsetLimit(rows, off, page_size) IN
                  Out(db, Returned(
                      [messages |-> [i \in 1..Len(slice) |->
                            MessageResponse_validate(prepare_data(slice[i]))[1]],
                       total |-> total, page |-> page,
                       page_size |-> page_size], 2))

-----------------------------------------------------------------------------
(* Route handlers: app/routes/session.py, app/routes/message.py *)

\* the response a route sends for what the repository method raised or
\* returned
Sent(op, out) ==
    Out(out.db, Response(op, out.r.status, out.r.body, out.r.dbcalls, TRUE))

\* the response of a route that raises before it builds a repository
Raised(op, db, status, detail) ==
    Out(db, Response(op, status, [detail |-> detail], 0, FALSE))

\* POST /chat/sessions: every exception of the repository (its HTTPException
\* included) is re-raised as 500 "Failed to create session"
create_session(db, session_data, u, t) ==
    LET out == create_ChatSession(db, session_data, u, t) IN
    IF out.r.status = 200 THEN Sent("create_session", out)
    ELSE Sent("create_session",
              Out(out.db, HTTPException(500, "Failed to create session",
                                        out.r.dbcalls)))

\* GET /chat/sessions/{session_id}
get_session(db, session_id) ==
    IF UuidParse(session_id) = None
    THEN Raised("get_session", db, 400, "Invalid session ID")
    ELSE Sent("get_session", get(db, session_id))

\* PUT /chat/sessions/{session_id}
update_session(db, session_id, session_data, t) ==
    IF UuidParse(session_id) = None
    THEN Raised("update_session", db, 400, "Invalid session ID")
    ELSE Sent("update_session", update(db, session_id, session_data, t))

\* DELETE /chat/sessions/{session_id}
delete_session(db, session_id) ==
    IF UuidParse(session_id) = None
    THEN Raised("delete_session", db, 400, "Invalid session ID")
    ELSE Sent("delete_session", delete(db, session_id))

\* an add_message that keeps a session_id the body brings
add_message_body_session_id(db, session_id, message_data, u, t) ==
    LET message_data_dict ==
            IF message_data.session_id = None
            THEN [message_data EXCEPT !.session_id = Some(session_id)]
            ELSE message_data
    IN  Sent("add_message", create_Message(db, message_data_dict, u, t))

\* POST /chat/sessions/{session_id}/messages: the body's session_id is
\* overwritten by the path parameter, unparsed
add_message(db, session_id, message_data, u, t) ==
    LET message_data_dict ==
            [message_data EXCEPT !.session_id = Some(session_id)]
    IN  Sent("add_message", create_Message(db, message_data_dict, u, t))

\* GET /chat/sessions/{session_id}/messages?page&page_size
get_messages(db, session_id, page, page_size) ==
    Sent("get_messages", get_by_session_id(db, session_id, page, page_size))

-----------------------------------------------------------------------------
(* Authentication: app/utils/auth.py *)

\* APIKeyHeader(name="X-API-Key") rejects a request without the header
\* itself, before verify_api_key runs; the status it uses is 403 or 401
\* depending on the installed framework release
NotAuthenticatedStatus == {401, 403}

\* Security(api_key_header) then verify_api_key, resolved before the endpoint
\* function is called; out is what the endpoint does when it is called
Endpoint(op, api_key, key, code, db, out) ==
    IF api_key = None
    THEN Raised(op, db, code, "Not authenticated")
    ELSE IF api_key # key
    THEN Raised(op, db, 401, "Invalid API key")
    ELSE out

Authorized(api_key, key) ==
    /\ api_key # None
    /\ api_key = key

-----------------------------------------------------------------------------
(* Rate limiting: each routes module builds Limiter(key_func=                *)
(* get_remote_address) and decorates every endpoint function with           *)
(* @limiter.limit("10/minute").  The limiter uses the fixed-window strategy  *)
(* over an in-memory storage (the library defaults), and keeps one counter  *)
(* per client address and endpoint function (releases of the library that   *)
(* key the counter by URL path are not modelled).                            *)

\* "10/minute": the hits one window admits
LimitAmount == 10

\* clock ticks in the one minute a window lasts
TicksPerMinute == 2

\* the clock values of the specification that lets time pass
Ticks == 0..TicksPerMinute

\* get_remote_address(request): request.client.host
Addresses == {"10.0.0.1", "10.0.0.2"}

Routes == {"create_session", "get_session", "update_session",
           "delete_session", "add_message", "get_messages"}

\* the Limiter object of app/routes/session.py and that of
\* app/routes/message.py, each with a storage of its own
Limiters == {"session", "message"}

LimiterOf(op) ==
    IF op \in {"add_message", "get_messages"} THEN "message" ELSE "session"

\* the storage keys: limiter, get_remote_address(request), and the scope
\* "<module>.<name>" of the decorated endpoint function
LimiterKey(op, addr) == <<LimiterOf(op), addr, op>>

LimiterKeys == {LimiterKey(op, addr) : op \in Routes, addr \in Addresses}

\* a key the storage does not hold
NoEntry == [count |-> 0, expires |-> 0]

\* MemoryStorage.get: a key whose expiry has come is dropped
MemoryStorage_get(b, t) == IF b.expires <= t THEN NoEntry ELSE b

\* MemoryStorage.incr without elastic expiry: the first hit of a window sets
\* the expiry one minute ahead; the counter is compared with the limit only,
\* so it is kept up to LimitAmount + 1
MemoryStorage_incr(b, t) ==
    LET c == MemoryStorage_get(b, t) IN
    [count |-> Min(c.count + 1, LimitAmount + 1),
     expires |-> IF c.count = 0 THEN t + TicksPerMinute ELSE c.expires]

\* what a request did, with the limiter storage it leaves and whether the
\* endpoint function was entered
Served(out, L, entered) ==
    [db |-> out.db, r |-> out.r, limiter |-> L, entered |-> entered]

\* The wrapper @limiter.limit puts around the endpoint function: count the
\* hit; over the limit raise RateLimitExceeded, which main.py answers with
\* _rate_limit_exceeded_handler (429); else call the endpoint function
Limited(op, addr, L, t, db, out) ==
    LET k == LimiterKey(op, addr)
        b == MemoryStorage_incr(L[k], t)
        L2 == [L EXCEPT ![k] = b]
    IN  IF b.count <= LimitAmount
        THEN Served(out, L2, TRUE)
        ELSE Served(Out(db, Response(op, 429,
                                     [error |-> "Rate limit exceeded"],
                                     0, FALSE)),
                    L2, FALSE)

\* a request pipeline that counts the hit before it resolves the dependencies
RequestLimitFirst(op, api_key, key, code, addr, L, t, db, out) ==
    LET o == Limited(op, addr, L, t, db, out) IN
    IF o.entered /\ ~Authorized(api_key, key)
    THEN Served(Endpoint(op, api_key, key, code, db, out), o.limiter, FALSE)
    ELSE o

\* One request: the framework resolves the dependencies (verify_api_key
\* among them) and only then calls the decorated endpoint function
Request(op, api_key, key, code, addr, L, t, db, out) ==
    IF Authorized(api_key, key)
    THEN Limited(op, addr, L, t, db, out)
    ELSE Served(Endpoint(op, api_key, key, code, db, out), L, FALSE)

\* the server process once it serves requests, as Spec takes it: the
\* connection string is set and the store answers
Serving == [state |-> "up", DATABASE_URL |-> Some("postgresql+asyncpg://db"),
            reachable |-> TRUE]

-----------------------------------------------------------------------------
(* The service, one request at a time *)

CurrentDb == Db(chat_sessions, messages)

Tasks == 1..MaxTasks

\* a task that is serving no request
Idle == [pc |-> "idle", row |-> None]

Apply(out) ==
    /\ chat_sessions' = out.db.chat_sessions
    /\ messages' = out.db.messages
    /\ resp' = out.r

\* no page answered yet
NoRun == [epoch |-> <<>>, id |-> 0, page_size |-> 0, pages |-> <<>>]

\* the state after construction, but for the process
InitData ==
    /\ API_KEY \in {None, Some("secret")}
    /\ chat_sessions = {}
    /\ messages = <<>>
    /\ drawn = [chat_sessions |-> {}, messages |-> {}]
    /\ now = StartTime
    /\ resp = Response("none", 0, [detail |-> "none"], 0, FALSE)
    /\ tx = [p \in Tasks |-> Idle]
    /\ deleted = {}
    /\ limiter = [k \in LimiterKeys |-> NoEntry]
    /\ reached = [k \in Addresses \X Routes |-> [t \in Ticks |-> 0]]
    /\ commits = <<>>
    /\ listed = NoRun
    /\ db_sessions = [made |-> 0, open |-> {}, uses |-> <<>>]

Init ==
    /\ InitData
    /\ process = Serving

\* What the service does with one request in the current state: dependency
\* resolution, then the endpoint
CreateSessionOut(api_key, code, session_data, u) ==
    Endpoint("create_session", api_key, API_KEY, code, CurrentDb,
             create_session(CurrentDb, session_data, u, now))

GetSessionOut(api_key, code, session_id) ==
    Endpoint("get_session", api_key, API_KEY, code, CurrentDb,
             get_session(CurrentDb, session_id))

UpdateSessionOut(api_key, code, session_id, session_data) ==
    Endpoint("update_session", api_key, API_KEY, code, CurrentDb,
             update_session(CurrentDb, session_id, session_data, now))

DeleteSessionOut(api_key, code, session_id) ==
    Endpoint("delete_session", api_key, API_KEY, code, CurrentDb,
             delete_session(CurrentDb, session_id))

AddMessageOut(api_key, code, session_id, message_data, u) ==
    Endpoint("add_message", api_key, API_KEY, code, CurrentDb,
             add_message(CurrentDb, session_id, message_data, u, now))

GetMessagesOut(api_key, code, session_id, page, page_size) ==
    Endpoint("get_messages", api_key, API_KEY, code, CurrentDb,
             get_messages(CurrentDb, session_id, page, page_size))

CreateSession(api_key, code, session_data, u) ==
    /\ u \in Uuid4(SessionUuids, drawn.chat_sessions)
    /\ LET out == CreateSessionOut(api_key, code, session_data, u)
       IN  /\ Apply(out)
           /\ drawn' = IF out.r.status = 200
                       THEN [drawn EXCEPT !.chat_sessions = @ \cup {u}]
                       ELSE drawn
    /\ UNCHANGED <<API_KEY, now, tx, deleted, aside>>

GetSession(api_key, code, session_id) ==
    /\ Apply(GetSessionOut(api_key, code, session_id))
    /\ UNCHANGED <<API_KEY, drawn, now, tx, deleted, aside>>

UpdateSession(api_key, code, session_id, session_data) ==
    /\ Apply(UpdateSessionOut(api_key, code, session_id, session_data))
    /\ UNCHANGED <<API_KEY, drawn, now, tx, deleted, aside>>

DeleteSession(api_key, code, session_id) ==
    /\ LET out == DeleteSessionOut(api_key, code, session_id)
       IN  /\ Apply(out)
           /\ deleted' = IF out.r.status = 200
                         THEN deleted \cup {UuidParse(session_id)[1]}
                         ELSE deleted
    /\ UNCHANGED <<API_KEY, drawn, now, tx, aside>>

AddMessage(api_key, code, session_id, message_data, u) ==
    /\ u \in Uuid4(MessageUuids, drawn.messages)
    /\ LET out == AddMessageOut(api_key, code, session_id, message_data, u)
       IN  /\ Apply(out)
           /\ drawn' = IF out.r.status = 200
                       THEN [drawn EXCEPT !.messages = @ \cup {u}]
                       ELSE drawn
    /\ UNCHANGED <<API_KEY, now, tx, deleted, aside>>

GetMessages(api_key, code, session_id, page, page_size) ==
    /\ Apply(GetMessagesOut(api_key, code, session_id, page, page_size))
    /\ UNCHANGED <<API_KEY, drawn, now, tx, deleted, aside>>

\* The inputs of a request that fails dependency resolution are never looked
\* at: one representative of them is enough
InputsFor(api_key, S) ==
    IF Authorized(api_key, API_KEY) THEN S ELSE {CHOOSE x \in S : TRUE}

\* the status APIKeyHeader picks matters only when the header is absent
CodesFor(api_key) ==
    IF api_key = None THEN NotAuthenticatedStatus
    ELSE {401}

Next ==
    \/ \E api_key \in Headers : \E code \in CodesFor(api_key),
          session_data \in InputsFor(api_key, ChatSessionCreate),
          u \in SessionUuids :
            CreateSession(api_key, code, session_data, u)
    \/ \E api_key \in Headers : \E code \in CodesFor(api_key),
          session_id \in InputsFor(api_key, IdStrings) :
            GetSession(api_key, code, session_id)
    \/ \E api_key \in Headers : \E code \in CodesFor(api_key),
          session_id \in InputsFor(api_key, IdStrings),
          session_data \in InputsFor(api_key, ChatSessionUpdate) :
            UpdateSession(api_key, code, session_id, session_data)
    \/ \E api_key \in Headers : \E code \in CodesFor(api_key),
          session_id \in InputsFor(api_key, IdStrings) :
            DeleteSession(api_key, code, session_id)
    \/ \E api_key \in Headers : \E code \in CodesFor(api_key),
          session_id \in InputsFor(api_key, IdStrings),
          message_data \in InputsFor(api_key, PlainMessages),
          u \in MessageUuids :
            AddMessage(api_key, code, session_id, message_data, u)
    \/ \E api_key \in Headers : \E code \in CodesFor(api_key),
          session_id \in InputsFor(api_key, IdStrings),
          page \in InputsFor(api_key, Pages),
          page_size \in InputsFor(api_key, PageSizes) :
            GetMessages(api_key, code, session_id, page, page_size)

Spec == Init /\ [][Next]_vars

-----------------------------------------------------------------------------
(* Concurrent requests.  Each task serves one request with its own store   *)
(* session; it is suspended at every store round trip, where the other     *)
(* tasks run.  The requests here carry the valid API key.                  *)

\* a store that lets the DELETE of a referenced row go ahead at once
NeverLocked(T, u) == FALSE

\* The INSERT of a message takes a key-share lock on the chat_sessions row
\* its session_id references and holds it until its transaction ends; the
\* DELETE of that row waits for the lock.
KeyShareLocked(T, u) ==
    \E p \in Tasks : T[p].pc = "add_flushed" /\ T[p].row[1].session_id = u

\* POST /chat/sessions, as in Spec
ConcCreateSession(session_data, u) ==
    /\ API_KEY = Some("secret")
    /\ CreateSession(Some("secret"), 401, session_data, u)

\* add_message up to its first suspension: db.add, flush (INSERT).  A
\* failed INSERT ends the request: rollback, 500.
AddFlush(p, session_id, message_data, u) ==
    /\ API_KEY = Some("secret")
    /\ tx[p].pc = "idle"
    /\ u \in Uuid4(MessageUuids, drawn.messages)
    /\ LET flushed == FlushMessage(CurrentDb,
                          [message_data EXCEPT !.session_id = Some(session_id)],
                          u)
       IN  IF flushed = None
           THEN /\ resp' = Response("add_message", 500,
                               [detail |-> "Failed to create message"], 1, TRUE)
                /\ UNCHANGED <<tx, drawn>>
           ELSE /\ tx' = [tx EXCEPT ![p] = [pc |-> "add_flushed",
                                            row |-> flushed]]
                /\ drawn' = [drawn EXCEPT !.messages = @ \cup {u}]
                /\ UNCHANGED resp
    /\ UNCHANGED <<API_KEY, chat_sessions, messages, now, deleted, aside>>

\* await self.db.commit(): the row becomes visible, the lock is released
AddCommit(p) ==
    /\ tx[p].pc = "add_flushed"
    /\ messages' = Append(messages, tx[p].row[1])
    /\ tx' = [tx EXCEPT ![p].pc = "add_committed"]
    /\ UNCHANGED <<API_KEY, chat_sessions, drawn, now, resp, deleted, aside>>

\* await self.db.refresh(db_instance), then the response projection; a row
\* that is gone by now fails the refresh: 500
AddRefresh(p) ==
    /\ tx[p].pc = "add_committed"
    /\ LET db_instance == tx[p].row[1] IN
       IF \E i \in DOMAIN messages : messages[i].id = db_instance.id
       THEN resp' = Response("add_message", 200,
                       MessageResponse_validate(prepare_data(db_instance))[1],
                       3, TRUE)
       ELSE resp' = Response("add_message", 500,
                       [detail |-> "Failed to create message"], 3, TRUE)
    /\ tx' = [tx EXCEPT ![p] = Idle]
    /\ UNCHANGED <<API_KEY, chat_sessions, messages, drawn, now, deleted, aside>>

\* delete_session up to its first suspension: the route's id check, then
\* the SELECT of BaseRepository.delete
DelSelect(p, session_id) ==
    /\ API_KEY = Some("secret")
    /\ tx[p].pc = "idle"
    /\ LET out == delete_session(CurrentDb, session_id) IN
       IF out.r.status = 200
       THEN /\ tx' = [tx EXCEPT ![p] = [pc |-> "del_selected",
                                        row |-> UuidParse(session_id)]]
            /\ UNCHANGED resp
       ELSE /\ resp' = out.r
            /\ UNCHANGED tx
    /\ UNCHANGED <<API_KEY, chat_sessions, messages, drawn, now, deleted, aside>>

\* self.db.delete(db_instance); await self.db.commit(): the DELETE waits for
\* the locks on the row, cascades to the messages and commits.  A DELETE
\* that matches no row (another request deleted it after the SELECT) only
\* warns in the unit of work, so the request answers as if it had deleted.
DelCommit(p) ==
    /\ tx[p].pc = "del_selected"
    /\ ~KeyShareLocked(tx, tx[p].row[1])
    /\ ~\E q \in Tasks : /\ tx[q].pc = "upd_executed"
                         /\ tx[q].row[1].id = tx[p].row[1]
    /\ LET db == DeleteChatSession(CurrentDb, tx[p].row[1]) IN
          /\ chat_sessions' = db.chat_sessions
          /\ messages' = db.messages
    /\ resp' = Response("delete_session", 200,
                        [message |-> "ChatSession deleted successfully"],
                        2, TRUE)
    /\ tx' = [tx EXCEPT ![p] = Idle]
    /\ deleted' = deleted \cup {tx[p].row[1]}
    /\ UNCHANGED <<API_KEY, drawn, now, aside>>

InitConc ==
    /\ Init
    /\ API_KEY = Some("secret")

NextConc ==
    \/ \E session_data \in ChatSessionCreate, u \in SessionUuids :
            ConcCreateSession(session_data, u)
    \/ \E p \in Tasks, session_id \in IdStrings, message_data \in PlainMessages,
          u \in MessageUuids :
            AddFlush(p, session_id, message_data, u)
    \/ \E p \in Tasks : AddCommit(p)
    \/ \E p \in Tasks : AddRefresh(p)
    \/ \E p \in Tasks, session_id \in IdStrings : DelSelect(p, session_id)
    \/ \E p \in Tasks : DelCommit(p)

SpecConc == InitConc /\ [][NextConc]_vars

-----------------------------------------------------------------------------
(* Concurrent updates.  Each update_session request runs in a task with its  *)
(* own store session, suspended at every store round trip of                *)
(* BaseRepository.update: SELECT, UPDATE, COMMIT, refresh.                   *)

\* a store that lets two transactions write one row at the same time
RowNeverLocked(T, u) == FALSE

\* The UPDATE of a row locks it until the transaction ends; the UPDATE of
\* another transaction on that row waits, then works on the committed row.
RowLocked(T, u) ==
    \E p \in Tasks : T[p].pc = "upd_executed" /\ T[p].row[1].id = u

\* the update transactions begun and not yet ended, and those committed
UpdatesBegun ==
    Cardinality({p \in Tasks : tx[p].pc \in {"upd_selected", "upd_executed"}})
        + Len(commits)

\* update_session up to its first suspension: the route's id check and the
\* SELECT of BaseRepository.update; 400 and 404 end the request
UpdSelect(p, session_id, session_data) ==
    /\ API_KEY = Some("secret")
    /\ tx[p].pc = "idle"
    /\ UpdatesBegun < MaxUpdates
    /\ LET out == update_session(CurrentDb, session_id, session_data, now) IN
       IF out.r.status \in {400, 404} /\ out.db = CurrentDb
       THEN /\ resp' = out.r
            /\ UNCHANGED tx
       ELSE /\ tx' = [tx EXCEPT ![p] =
                        [pc |-> "upd_selected",
                         row |-> Some([id |-> UuidParse(session_id)[1],
                                       data |-> session_data])]]
            /\ UNCHANGED resp
    /\ UNCHANGED <<API_KEY, chat_sessions, messages, drawn, now, deleted,
                   aside>>

\* await self.db.execute(update(...).values(**update_data)): waits for the
\* row lock, then writes the new version of the committed row, not yet
\* visible to others.  An UPDATE whose row is gone since the SELECT matches
\* no row and is no error (new is None).
UpdExecute(p) ==
    /\ tx[p].pc = "upd_selected"
    /\ ~RowLocked(tx, tx[p].row[1].id)
    /\ LET u == tx[p].row[1].id
           data == tx[p].row[1].data
           found == SelectChatSession(CurrentDb, u)
       IN  tx' = [tx EXCEPT ![p] =
                    [pc |-> "upd_executed",
                     row |-> Some([id |-> u, data |-> data,
                                   new |-> IF found = {} THEN None
                                           ELSE Some(UpdateChatSession(
                                               CHOOSE r \in found : TRUE,
                                               model_dump_exclude_unset(data),
                                               now))])]]
    /\ UNCHANGED <<API_KEY, chat_sessions, messages, drawn, now, resp,
                   deleted, aside>>

\* await self.db.commit(): the new version replaces the row, the lock goes
UpdCommit(p) ==
    /\ tx[p].pc = "upd_executed"
    /\ chat_sessions' = IF tx[p].row[1].new = None THEN chat_sessions
                        ELSE {r \in chat_sessions : r.id # tx[p].row[1].id}
                                 \cup {tx[p].row[1].new[1]}
    /\ commits' = Append(commits, [task |-> p, id |-> tx[p].row[1].id,
                                   data |-> tx[p].row[1].data])
    /\ tx' = [tx EXCEPT ![p].pc = "upd_committed"]
    /\ UNCHANGED <<API_KEY, messages, drawn, now, resp, deleted, limiter,
                   reached, process, listed, db_sessions>>

\* await self.db.refresh(db_instance): reads the committed row as it is
\* now; then the response projection.  The refresh of a row that is gone
\* raises InvalidRequestError: except Exception, rollback, 500.
UpdRefresh(p) ==
    /\ tx[p].pc = "upd_committed"
    /\ LET found == SelectChatSession(CurrentDb, tx[p].row[1].id) IN
       IF found = {}
       THEN resp' = Response("update_session", 500,
                             [detail |-> "Failed to update chatsession"],
                             4, TRUE)
       ELSE LET db_instance == CHOOSE r \in found : TRUE
                v == ChatSessionResponse_validate(prepare_data(db_instance))
            IN  resp' = IF v = None
                        THEN Response("update_session", 400,
                                      [detail |-> "Invalid ID format"], 4, TRUE)
                        ELSE Response("update_session", 200, v[1], 4, TRUE)
    /\ tx' = [tx EXCEPT ![p] = Idle]
    /\ UNCHANGED <<API_KEY, chat_sessions, messages, drawn, now, deleted,
                   aside>>

NextUpd ==
    \/ \E session_data \in ChatSessionCreate, u \in SessionUuids :
            ConcCreateSession(session_data, u)
    \/ \E p \in Tasks, session_id \in IdStrings,
          session_data \in ChatSessionUpdate :
            UpdSelect(p, session_id, session_data)
    \/ \E p \in Tasks : UpdExecute(p)
    \/ \E p \in Tasks : UpdCommit(p)
    \/ \E p \in Tasks : UpdRefresh(p)

SpecUpd == InitConc /\ [][NextUpd]_vars

-----------------------------------------------------------------------------
(* Updates and deletes of sessions served concurrently: the steps of        *)
(* BaseRepository.update and BaseRepository.delete of the tasks interleave. *)

\* the payloads of the update requests of this specification
RaceUpdates == {d \in ChatSessionUpdate : d.fields_set = {"name"}}

NextRace ==
    \/ \E session_data \in ChatSessionCreate, u \in SessionUuids :
            ConcCreateSession(session_data, u)
    \/ \E p \in Tasks, session_id \in IdStrings, session_data \in RaceUpdates :
            UpdSelect(p, session_id, session_data)
    \/ \E p \in Tasks : UpdExecute(p)
    \/ \E p \in Tasks : UpdCommit(p)
    \/ \E p \in Tasks : UpdRefresh(p)
    \/ \E p \in Tasks, session_id \in IdStrings : DelSelect(p, session_id)
    \/ \E p \in Tasks : DelCommit(p)

SpecRace == InitConc /\ [][NextRace]_vars

-----------------------------------------------------------------------------
(* Listing messages while other requests write.  get_by_session_id sends    *)
(* two statements, the count and the slice, and is suspended at each; the   *)
(* store session reads committed data as of each statement.                 *)

\* The slice query has no ORDER BY: the store returns the matching rows in
\* whatever order it produces them, which it does not promise to repeat
\* from one statement to the next.
RowOrders(rows) ==
    LET n == Len(rows)
        perms == {f \in [1..n -> 1..n] : \A i, j \in 1..n : f[i] = f[j] => i = j}
    IN  {[i \in 1..n |-> rows[f[i]]] : f \in perms}

\* the writes so far: every create and add draws an id, every delete of a
\* session is recorded
Epoch == <<drawn, deleted>>

\* get_messages up to its first suspension: uuid.UUID(session_id), then the
\* count query
ListCount(p, session_id, page, page_size) ==
    /\ API_KEY = Some("secret")
    /\ tx[p].pc = "idle"
    /\ LET session_id_value == UuidParse(session_id) IN
       IF session_id_value = None
       THEN /\ resp' = get_messages(CurrentDb, session_id, page, page_size).r
            /\ UNCHANGED tx
       ELSE /\ tx' = [tx EXCEPT ![p] =
                        [pc |-> "list_counted",
                         row |-> Some([session_id |-> session_id_value[1],
                                       page |-> page, page_size |-> page_size,
                                       total |-> Len(MessagesOf(
                                           CurrentDb, session_id_value[1]))])]]
            /\ UNCHANGED resp
    /\ UNCHANGED <<API_KEY, chat_sessions, messages, drawn, now, deleted,
                   aside>>

\* the slice query on the rows committed by now, then the envelope
ListSlice(p) ==
    /\ tx[p].pc = "list_counted"
    /\ LET q == tx[p].row[1]
           off == (q.page - 1) * q.page_size
       IN  IF off < 0
           THEN /\ resp' = Response("get_messages", 500,
                               [detail |-> "Failed to retrieve messages"],
                               2, TRUE)
                /\ UNCHANGED listed
           ELSE \E rows \in RowOrders(MessagesOf(CurrentDb, q.session_id)) :
                LET slice == OffsetLimit(rows, off, q.page_size)
                    same == /\ listed.epoch = Epoch
                            /\ listed.id = q.session_id
                            /\ listed.page_size = q.page_size
                    before == IF same THEN listed.pages ELSE <<>>
                IN  /\ resp' = Response("get_messages", 200,
                           [messages |-> [i \in 1..Len(slice) |->
                               MessageResponse_validate(
                                   prepare_data(slice[i]))[1]],
                            total |-> q.total, page |-> q.page,
                            page_size |-> q.page_size], 2, TRUE)
                    /\ listed' =
                         [epoch |-> Epoch, id |-> q.session_id,
                          page_size |-> q.page_size,
                          pages |-> [k \in DOMAIN before \cup {q.page} |->
                                       IF k = q.page
                                       THEN [i \in 1..Len(slice) |-> slice[i].id]
                                       ELSE before[k]]]
    /\ tx' = [tx EXCEPT ![p] = Idle]
    /\ UNCHANGED <<API_KEY, chat_sessions, messages, drawn, now, deleted,
                   limiter, reached, process, commits, db_sessions>>

\* the session ids of the requests of this specification
ListIds == {UuidStr(1), <<"malformed", 0>>}

\* a listing begins when no other is in flight: the writes are what runs
\* beside it
ListBegin(p, session_id, page, page_size) ==
    /\ \A q \in Tasks : tx[q].pc = "idle"
    /\ ListCount(p, session_id, page, page_size)

NextList ==
    \/ \E session_data \in ChatSessionCreate, u \in SessionUuids :
            ConcCreateSession(session_data, u)
    \/ \E session_id \in ListIds, message_data \in PlainMessages,
          u \in MessageUuids :
            AddMessage(Some("secret"), 401, session_id, message_data, u)
    \/ \E session_id \in ListIds :
            DeleteSession(Some("secret"), 401, session_id)
    \/ \E p \in Tasks, session_id \in ListIds, page \in Pages,
          page_size \in PageSizes :
            ListBegin(p, session_id, page, page_size)
    \/ \E p \in Tasks : ListSlice(p)

SpecList == InitConc /\ [][NextList]_vars

-----------------------------------------------------------------------------
(* The store session of a request.  Every endpoint declares                 *)
(* db = Depends(get_db) before api_key = Depends(verify_api_key): get_db    *)
(* runs up to its yield, then the key check and the endpoint function, and  *)
(* then the rest of get_db.  The tasks interleave at these points.          *)

\* a session factory that hands out the one session it made first
AsyncSessionShared(S) ==
    IF S.made = 0
    THEN [sessions |-> [made |-> 1, open |-> {1}, uses |-> <<0>>],
          session |-> 1]
    ELSE [sessions |-> [S EXCEPT !.open = @ \cup {1}], session |-> 1]

\* session = AsyncSessionLocal(): a new session object, open
AsyncSessionLocal(S) ==
    [sessions |-> [made |-> S.made + 1,
                   open |-> S.open \cup {S.made + 1},
                   uses |-> Append(S.uses, 0)],
     session |-> S.made + 1]

\* await session.close()
session_close(S, session) == [S EXCEPT !.open = @ \ {session}]

\* BaseRepository.__init__: the repository keeps the session it is given
BaseRepository_init(db) == [db |-> db]

\* the requests of this specification
SessionRequests ==
    {q \in [op : {"create_session", "get_session", "get_messages"},
            api_key : {Some("secret"), Some("wrong")},
            session_id : ListIds, page : {0, 1}] :
        /\ q.op = "create_session" => q.session_id = UuidStr(1) /\ q.page = 1
        /\ q.op = "get_session" => q.page = 1
        /\ q.api_key = Some("wrong") => q.session_id = UuidStr(1) /\ q.page = 1}

\* the create requests that hold a session and have not yet drawn their id
CreatesBegun ==
    Cardinality({p \in Tasks : /\ tx[p].pc = "db_yielded"
                               /\ tx[p].row[1].request.op = "create_session"})

\* get_db up to its yield: the request's session is made and handed to the
\* endpoint's db parameter
get_db_yield(p, request) ==
    /\ tx[p].pc = "idle"
    /\ db_sessions.made < MaxDbSessions
    /\ request.op = "create_session"
           => Cardinality(drawn.chat_sessions) + CreatesBegun < MaxSessions
    /\ LET local == AsyncSessionLocal(db_sessions) IN
          /\ db_sessions' = [local.sessions EXCEPT
                                !.uses[local.session] = @ + 1]
          /\ tx' = [tx EXCEPT ![p] =
                      [pc |-> "db_yielded",
                       row |-> Some([session |-> local.session,
                                     request |-> request, repo |-> None])]]
    /\ UNCHANGED <<API_KEY, chat_sessions, messages, drawn, now, resp,
                   deleted, limiter, reached, process, commits, listed>>

\* verify_api_key, then the endpoint function with db bound to the
\* request's session: the route builds its repository on db and calls it
endpoint_call(p) ==
    /\ tx[p].pc = "db_yielded"
    /\ LET q == tx[p].row[1].request
           db == tx[p].row[1].session
       IN  \E u \in IF q.op = "create_session"
                    THEN Uuid4(SessionUuids, drawn.chat_sessions)
                    ELSE {0} :
           LET out ==
                 CASE q.op = "create_session" ->
                        CreateSessionOut(q.api_key, 401,
                                         [name |-> None, user_id |-> "u1"], u)
                   [] q.op = "get_session" ->
                        GetSessionOut(q.api_key, 401, q.session_id)
                   [] q.op = "get_messages" ->
                        GetMessagesOut(q.api_key, 401, q.session_id, q.page, 1)
           IN  /\ Apply(out)
               /\ drawn' = IF q.op = "create_session" /\ out.r.status = 200
                           THEN [drawn EXCEPT !.chat_sessions = @ \cup {u}]
                           ELSE drawn
               /\ tx' = [tx EXCEPT ![p] =
                           [pc |-> "endpoint_done",
                            row |-> Some([session |-> db, request |-> q,
                                          repo |-> IF out.r.repo
                                                   THEN Some(BaseRepository_init(db))
                                                   ELSE None])]]
    /\ UNCHANGED <<API_KEY, now, deleted, aside>>

\* get_db after its yield, when the endpoint has returned or raised: on an
\* exception rollback (nothing uncommitted is visible to others) and
\* re-raise; in every case finally: await session.close()
get_db_close(p) ==
    /\ tx[p].pc = "endpoint_done"
    /\ db_sessions' = session_close(db_sessions, tx[p].row[1].session)
    /\ tx' = [tx EXCEPT ![p] = Idle]
    /\ UNCHANGED <<API_KEY, chat_sessions, messages, drawn, now, resp,
                   deleted, limiter, reached, process, commits, listed>>

NextSession ==
    \/ \E p \in Tasks, request \in SessionRequests : get_db_yield(p, request)
    \/ \E p \in Tasks : endpoint_call(p)
    \/ \E p \in Tasks : get_db_close(p)

\* the event loop runs every task that can run, and the store answers
SpecSession ==
    /\ InitConc
    /\ [][NextSession]_vars
    /\ \A p \in Tasks : WF_vars(endpoint_call(p)) /\ WF_vars(get_db_close(p))

-----------------------------------------------------------------------------
(* Requests under the rate limiter, one at a time, with the clock running.  *)
(* Each request comes from a client address and passes dependency           *)
(* resolution, the limiter's wrapper and the endpoint function.             *)

\* the wall clock moves on
Tick(horizon) ==
    /\ now < horizon
    /\ now' = now + 1
    /\ UNCHANGED <<API_KEY, chat_sessions, messages, drawn, resp, tx, deleted,
                   aside>>

\* the requests of a client that entered an endpoint function so far
Entered(addr) ==
    Sum([op \in Routes |-> Sum(reached[<<addr, op>>], Ticks)], Routes)

\* the first client sends as many requests as it likes, every other client
\* at most MaxOtherHits that enter an endpoint function
Sends(addr) ==
    addr = "10.0.0.1" \/ Entered(addr) < MaxOtherHits

ApplyServed(addr, op, o) ==
    /\ Sends(addr)
    /\ Apply(Out(o.db, o.r))
    /\ limiter' = o.limiter
    /\ reached' = IF o.entered
                  THEN [reached EXCEPT ![<<addr, op>>][now] = @ + 1]
                  ELSE reached

LimitCreateSessionOut(addr, api_key, code, session_data, u) ==
    Request("create_session", api_key, API_KEY, code, addr,
            limiter, now, CurrentDb,
            create_session(CurrentDb, session_data, u, now))

LimitUpdateSessionOut(addr, api_key, code, session_id, session_data) ==
    Request("update_session", api_key, API_KEY, code, addr,
            limiter, now, CurrentDb,
            update_session(CurrentDb, session_id, session_data, now))

LimitCreateSession(addr, api_key, code, session_data, u) ==
    /\ u \in Uuid4(SessionUuids, drawn.chat_sessions)
    /\ LET o == LimitCreateSessionOut(addr, api_key, code, session_data, u)
       IN  /\ ApplyServed(addr, "create_session", o)
           /\ drawn' = IF o.r.status = 200
                       THEN [drawn EXCEPT !.chat_sessions = @ \cup {u}]
                       ELSE drawn
    /\ UNCHANGED <<API_KEY, now, tx, deleted, process, commits, listed,
                   db_sessions>>

LimitUpdateSession(addr, api_key, code, session_id, session_data) ==
    /\ ApplyServed(addr, "update_session",
                   LimitUpdateSessionOut(addr, api_key, code, session_id,
                                         session_data))
    /\ UNCHANGED <<API_KEY, drawn, now, tx, deleted, process, commits,
                   listed, db_sessions>>

\* the requests this specification sends: one session, read by both
\* clients and starred by the first
LimitCreates == {d \in ChatSessionCreate : d.name = None}
LimitIds == {UuidStr(1)}
LimitUpdates ==
    {d \in ChatSessionUpdate :
        d.fields_set = {"is_favorite"} /\ d.is_favorite = Some(TRUE)}

InitLimit ==
    /\ Init
    /\ API_KEY = Some("secret")

NextLimit ==
    \/ Tick(TicksPerMinute)
    \/ \E addr \in Addresses, api_key \in Headers :
       \E code \in CodesFor(api_key),
          session_data \in InputsFor(api_key, LimitCreates) :
            LimitCreateSession(addr, api_key, code, session_data, 1)
    \/ \E addr \in Addresses, api_key \in Headers :
       \E code \in CodesFor(api_key),
          session_id \in InputsFor(api_key, LimitIds),
          session_data \in InputsFor(api_key, LimitUpdates) :
            LimitUpdateSession(addr, api_key, code, session_id, session_data)

SpecLimit == InitLimit /\ [][NextLimit]_vars

-----------------------------------------------------------------------------
(* Process start: the import of app.main, then the server's startup, then   *)
(* requests.  The environment is whatever the deployment provides.          *)

\* os.getenv("DATABASE_URL") and whether the store answers a connection
Environments ==
    [state : {"importing"},
     DATABASE_URL : {None, Some("postgresql+asyncpg://db")},
     reachable : BOOLEAN]

\* init_db: engine.begin() connects and creates the tables; it raises when
\* the store cannot be reached
init_db(p) ==
    IF p.reachable THEN [p EXCEPT !.state = "up"]
    ELSE [p EXCEPT !.state = "failed"]

\* The lifespan context manager of main.py.  It is defined after the
\* FastAPI object was built and is never given to it, so the server never
\* runs it.
lifespan(p) == init_db(p)

\* the lifespan the application runs at startup: FastAPI(...) was built
\* without lifespan=, so it is the framework's empty default
router_lifespan_context(p) == [p EXCEPT !.state = "up"]

\* import app.main: app.database.engine raises ValueError when DATABASE_URL
\* is missing, and create_async_engine connects to nothing yet;
\* app.utils.auth reads API_KEY and accepts its absence
ImportApp ==
    /\ process.state = "importing"
    /\ process' = IF process.DATABASE_URL = None
                  THEN [process EXCEPT !.state = "failed"]
                  ELSE [process EXCEPT !.state = "imported"]
    /\ UNCHANGED <<API_KEY, chat_sessions, messages, drawn, now, resp, tx,
                   deleted, limiter, reached, commits, listed, db_sessions>>

\* the server starts the application
StartServer ==
    /\ process.state = "imported"
    /\ process' = router_lifespan_context(process)
    /\ UNCHANGED <<API_KEY, chat_sessions, messages, drawn, now, resp, tx,
                   deleted, limiter, reached, commits, listed, db_sessions>>

\* GET /health: no dependency, no limiter, no store
health_check(db) ==
    Out(db, Response("health", 200, [status |-> "healthy"], 0, FALSE))

Health ==
    /\ process.state = "up"
    /\ Apply(health_check(CurrentDb))
    /\ UNCHANGED <<API_KEY, drawn, now, tx, deleted, aside>>

\* A store that cannot be reached fails the first statement of a repository
\* method; the method answers 500 (create_session re-raises it as its own)
create_session_unreachable(db) ==
    Sent("create_session",
         Out(db, HTTPException(500, "Failed to create session", 1)))

get_session_unreachable(db, session_id) ==
    IF UuidParse(session_id) = None
    THEN Raised("get_session", db, 400, "Invalid session ID")
    ELSE Sent("get_session",
              Out(db, HTTPException(500, "Failed to retrieve chatsession", 1)))

StartupCreateSession(api_key, code, session_data, u) ==
    /\ process.state = "up"
    /\ IF process.reachable
       THEN CreateSession(api_key, code, session_data, u)
       ELSE /\ Apply(Endpoint("create_session", api_key, API_KEY, code,
                              CurrentDb, create_session_unreachable(CurrentDb)))
            /\ UNCHANGED <<API_KEY, drawn, now, tx, deleted, aside>>

StartupGetSession(api_key, code, session_id) ==
    /\ process.state = "up"
    /\ IF process.reachable
       THEN GetSession(api_key, code, session_id)
       ELSE /\ Apply(Endpoint("get_session", api_key, API_KEY, code,
                              CurrentDb,
                              get_session_unreachable(CurrentDb, session_id)))
            /\ UNCHANGED <<API_KEY, drawn, now, tx, deleted, aside>>

InitStartup ==
    /\ InitData
    /\ process \in Environments

NextStartup ==
    \/ ImportApp
    \/ StartServer
    \/ Health
    \/ \E api_key \in Headers : \E code \in CodesFor(api_key),
          session_data \in InputsFor(api_key, ChatSessionCreate),
          u \in SessionUuids :
            StartupCreateSession(api_key, code, session_data, u)
    \/ \E api_key \in Headers : \E code \in CodesFor(api_key),
          session_id \in InputsFor(api_key, IdStrings) :
            StartupGetSession(api_key, code, session_id)

SpecStartup == InitStartup /\ [][NextStartup]_vars

-----------------------------------------------------------------------------
(* Requests with the valid key, one at a time, with the clock running *)

CanonIds == {UuidStr(u) : u \in SessionUuids}

InitClock ==
    /\ Init
    /\ API_KEY = Some("secret")

NextClock ==
    \/ Tick(MaxTime)
    \/ \E session_data \in ChatSessionCreate, u \in SessionUuids :
            CreateSession(Some("secret"), 401, session_data, u)
    \/ \E session_id \in CanonIds, session_data \in ChatSessionUpdate :
            UpdateSession(Some("secret"), 401, session_id, session_data)
    \/ \E session_id \in IdStrings, message_data \in Message,
          u \in MessageUuids :
            AddMessage(Some("secret"), 401, session_id, message_data, u)

SpecClock == InitClock /\ [][NextClock]_vars

-----------------------------------------------------------------------------
(* Properties, checked under Spec *)

ErrorStatus == {400, 404, 500}
WriteOps == {"create_session", "add_message", "update_session",
             "delete_session"}

\* the requests whose X-API-Key passes verify_api_key
GoodKeys == {k \in Headers : Authorized(k, API_KEY)}

SessionIds == {r.id : r \in chat_sessions}

\* C1: whenever a create, update or delete call answers Bad Request, Not
\* Found or Internal Error, chat_sessions and messages are what they were
\* before the call.
C1_FailedWriteChangesNothing ==
    [][(resp'.op \in WriteOps /\ resp'.status \in ErrorStatus)
        => (chat_sessions' = chat_sessions /\ messages' = messages)]_vars

\* C2: for a malformed identifier string, get, update and delete answer
\* 400 Bad Request, make no store round trip and leave the store as it was.
C2_MalformedIdIsBadRequest ==
    \A api_key \in GoodKeys, session_id \in IdStrings :
        Malformed(session_id) =>
            LET Bad(out) == /\ out.r.status = 400
                            /\ out.r.dbcalls = 0
                            /\ out.db = CurrentDb
            IN  /\ Bad(GetSessionOut(api_key, 401, session_id))
                /\ Bad(DeleteSessionOut(api_key, 401, session_id))
                /\ \A session_data \in ChatSessionUpdate :
                      Bad(UpdateSessionOut(api_key, 401, session_id,
                                           session_data))

\* C2 witness: an update with a malformed id was answered 400 at the route,
\* with sessions in the store
C2_Witness ==
    /\ resp.op = "update_session"
    /\ resp.status = 400
    /\ resp.body.detail = "Invalid session ID"
    /\ resp.dbcalls = 0
    /\ chat_sessions # {}

\* C3: for a well-formed identifier, get, update and delete answer only
\* success, Not Found or Internal Error (never Bad Request), and get on a
\* session that exists returns that session.
C3_BadRequestOnlyForMalformedId ==
    [][\A api_key \in GoodKeys, session_id \in IdStrings :
        WellFormed(session_id) =>
            LET Fine == resp'.status \in {200, 404, 500} IN
            /\ GetSession(api_key, 401, session_id) =>
                  /\ Fine
                  /\ session_id[2] \in SessionIds =>
                        /\ resp'.status = 200
                        /\ resp'.body.id = UuidStr(session_id[2])
            /\ DeleteSession(api_key, 401, session_id) => Fine
            /\ \A session_data \in ChatSessionUpdate :
                  UpdateSession(api_key, 401, session_id, session_data)
                    => Fine]_vars

\* C4: for a well-formed identifier that matches no stored session, get,
\* update and delete answer 404 Not Found and leave the store as it was.
C4_UnassignedIdIsNotFound ==
    \A api_key \in GoodKeys, session_id \in IdStrings :
        (WellFormed(session_id) /\ session_id[2] \notin SessionIds) =>
            LET Missing(out) == /\ out.r.status = 404
                                /\ out.db = CurrentDb
            IN  /\ Missing(GetSessionOut(api_key, 401, session_id))
                /\ Missing(DeleteSessionOut(api_key, 401, session_id))
                /\ \A session_data \in ChatSessionUpdate :
                      Missing(UpdateSessionOut(api_key, 401, session_id,
                                               session_data))

\* C4 witness: a delete of an id that is not stored was answered 404 while
\* another session and its message are stored
C4_Witness ==
    /\ resp.op = "delete_session"
    /\ resp.status = 404
    /\ chat_sessions # {}
    /\ messages # <<>>

\* the number of stored messages of session u, counted row by row
CountOf(M, u) == Cardinality({i \in DOMAIN M : M[i].session_id = u})

\* C5: a successful delete of a session removes the session and all its
\* messages; list_by_session for that id then has total 0 and no messages
\* for every page and page size; other sessions and their messages stay.
C5_DeleteCascades ==
    \A api_key \in GoodKeys, session_id \in IdStrings :
        LET out == DeleteSessionOut(api_key, 401, session_id) IN
        out.r.status = 200 =>
            LET u == session_id[2] IN
            /\ out.db.chat_sessions = {r \in chat_sessions : r.id # u}
            /\ CountOf(out.db.messages, u) = 0
            /\ \A v \in SessionUuids \ {u} :
                  SelectSeq(out.db.messages, LAMBDA m : m.session_id = v)
                    = SelectSeq(messages, LAMBDA m : m.session_id = v)
            /\ Len(out.db.messages) = Len(messages) - CountOf(messages, u)
            /\ \A page \in Pages \ {0}, page_size \in PageSizes :
                  LET l == get_messages(out.db, session_id, page, page_size)
                  IN  /\ l.r.status = 200
                      /\ l.r.body.total = 0
                      /\ l.r.body.messages = <<>>

\* C5 witness: a delete succeeded, a stored message id is gone with it, and
\* a message of another session is still stored
C5_Witness ==
    /\ resp.op = "delete_session"
    /\ resp.status = 200
    /\ \E u \in drawn.messages : \A i \in DOMAIN messages : messages[i].id # u
    /\ messages # <<>>

\* C6 (under SpecConc): in every reachable state, whatever the interleaving
\* of add-message and delete-session requests, each stored message's
\* session_id is the id of a stored session, as is that of each inserted row
\* not yet committed; and an add-message to an id that is not stored is
\* answered Internal Error and persists nothing.
C6_MessagesReferenceSessions ==
    /\ \A i \in DOMAIN messages : messages[i].session_id \in SessionIds
    /\ \A p \in Tasks :
          tx[p].pc = "add_flushed" => tx[p].row[1].session_id \in SessionIds
    /\ \A session_id \in IdStrings, message_data \in Message,
          u \in MessageUuids :
          session_id[2] \notin SessionIds =>
              LET out == add_message(CurrentDb, session_id, message_data,
                                     u, now)
              IN  /\ out.r.status = 500
                  /\ out.db = CurrentDb
                  /\ FlushMessage(CurrentDb,
                        [message_data EXCEPT !.session_id = Some(session_id)],
                        u) = None

\* C6 witness: a delete of a session completed between the commit and the
\* refresh of an add-message to that session, taking the new message with it
C6_Witness ==
    /\ resp.op = "delete_session"
    /\ resp.status = 200
    /\ \E p \in Tasks :
          /\ tx[p].pc = "add_committed"
          /\ tx[p].row[1].session_id \notin SessionIds
          /\ \A i \in DOMAIN messages : messages[i].id # tx[p].row[1].id

C8_GetAfterCreate ==
    \A api_key \in GoodKeys, session_data \in ChatSessionCreate,
       u \in Uuid4(SessionUuids, drawn.chat_sessions) :
        LET out == CreateSessionOut(api_key, 401, session_data, u)
            g == get_session(out.db, out.r.body.id)
        IN  /\ out.r.status = 200
            /\ g.r.status = 200
            /\ g.r.body.id = out.r.body.id
            /\ g.r.body.name = session_data.name
            /\ g.r.body.user_id = session_data.user_id
            /\ g.r.body.is_favorite = FALSE
            /\ \A v \in drawn.chat_sessions : out.r.body.id # UuidStr(v)
            /\ \A r \in chat_sessions : UuidStr(r.id) # out.r.body.id

\* C8 witness: the second create succeeded, with a name, after the first
\* session was deleted
C8_Witness ==
    /\ resp.op = "create_session"
    /\ resp.status = 200
    /\ resp.body.name = Some("a")
    /\ drawn.chat_sessions = SessionUuids
    /\ Cardinality(chat_sessions) = 1

\* C9: with M messages in a session, list_by_session with page p >= 1 and
\* page_size s >= 1 returns min(max(M - (p-1)*s, 0), s) messages, total M,
\* and echoes p and s.
C9_Pagination ==
    \A api_key \in GoodKeys, session_id \in IdStrings,
       page \in Pages \ {0}, page_size \in PageSizes :
        WellFormed(session_id) =>
            LET out == GetMessagesOut(api_key, 401, session_id, page,
                                      page_size)
                M == CountOf(messages, session_id[2])
            IN  /\ out.r.status = 200
                /\ Len(out.r.body.messages)
                     = Min(Max(M - (page - 1) * page_size, 0), page_size)
                /\ out.r.body.total = M
                /\ out.r.body.page = page
                /\ out.r.body.page_size = page_size
                /\ \A i \in DOMAIN out.r.body.messages :
                      out.r.body.messages[i].session_id
                        = UuidStr(session_id[2])

\* C9 witness: a page past the end was answered with no messages and the
\* true total of a session that has messages
C9_Witness ==
    /\ resp.op = "get_messages"
    /\ resp.status = 200
    /\ resp.body.total = MaxMessages
    /\ resp.body.page = 2
    /\ resp.body.page_size = MaxPageSize
    /\ Len(resp.body.messages) = Min(Max(MaxMessages - MaxPageSize, 0), MaxPageSize)

\* C10: every request to a session or message route whose X-API-Key is
\* missing or is not the configured secret is answered 401, reaches no
\* repository method and leaves the store as it was.
C10_BadKeyIs401 ==
    \A api_key \in Headers \ GoodKeys :
        \A code \in CodesFor(api_key) :
            LET Refused(out) == /\ out.r.status = 401
                                /\ ~out.r.repo
                                /\ out.db = CurrentDb
            IN  /\ \A session_data \in ChatSessionCreate, u \in SessionUuids :
                      Refused(CreateSessionOut(api_key, code, session_data, u))
                /\ \A session_id \in IdStrings :
                      /\ Refused(GetSessionOut(api_key, code, session_id))
                      /\ Refused(DeleteSessionOut(api_key, code, session_id))
                      /\ \A session_data \in ChatSessionUpdate :
                            Refused(UpdateSessionOut(api_key, code, session_id,
                                                     session_data))
                      /\ \A message_data \in Message, u \in MessageUuids :
                            Refused(AddMessageOut(api_key, code, session_id,
                                                  message_data, u))
                      /\ \A page \in Pages, page_size \in PageSizes :
                            Refused(GetMessagesOut(api_key, code, session_id,
                                                   page, page_size))

\* C14: once a delete of a session id has succeeded, in every later state
\* the id is not stored, get, update and delete on it answer Not Found,
\* list_by_session on it has total 0, no message refers to it or can be
\* added to it, and no create returns it.
C14_NoResurrection ==
    \A d \in deleted :
        /\ d \notin SessionIds
        /\ CountOf(messages, d) = 0
        /\ \A api_key \in GoodKeys :
           \A session_id \in {s \in IdStrings : UuidParse(s) = Some(d)} :
              /\ GetSessionOut(api_key, 401, session_id).r.status = 404
              /\ DeleteSessionOut(api_key, 401, session_id).r.status = 404
              /\ \A session_data \in ChatSessionUpdate :
                    UpdateSessionOut(api_key, 401, session_id,
                                     session_data).r.status = 404
              /\ \A page \in Pages \ {0}, page_size \in PageSizes :
                    LET l == GetMessagesOut(api_key, 401, session_id, page,
                                            page_size)
                    IN  l.r.status = 200 /\ l.r.body.total = 0
              /\ \A message_data \in Message,
                    u \in Uuid4(MessageUuids, drawn.messages) :
                    LET a == AddMessageOut(api_key, 401, session_id,
                                           message_data, u)
                    IN  a.r.status = 500 /\ a.db = CurrentDb
           /\ \A session_data \in ChatSessionCreate,
                 u \in Uuid4(SessionUuids, drawn.chat_sessions) :
                 LET c == CreateSessionOut(api_key, 401, session_data, u)
                 IN  /\ c.r.body.id # UuidStr(d)
                     /\ \A r \in c.db.chat_sessions : r.id # d

\* C14 witness: a session was created after another had been deleted, and a
\* message was added to the new one
C14_Witness ==
    /\ deleted # {}
    /\ resp.op = "add_message"
    /\ resp.status = 200
    /\ chat_sessions # {}
    /\ drawn.chat_sessions = SessionUuids

\* C15: in every step each stored message either stays in the store with
\* its id, session_id, sender, content, context and timestamp as they were,
\* or leaves it in a step that is the successful delete of its owning
\* session.
C15_MessagesImmutable ==
    [][\A i \in DOMAIN messages :
        LET m == messages[i]
            kept == {j \in DOMAIN messages' : messages'[j].id = m.id}
        IN  IF kept # {}
            THEN \A j \in kept : messages'[j] = m
            ELSE /\ resp'.op = "delete_session"
                 /\ resp'.status = 200
                 /\ m.session_id \in SessionIds
                 /\ m.session_id \notin {r.id : r \in chat_sessions'}]_vars

\* C15 witness: a delete took one message with its session while the message
\* of another session stayed
C15_Witness ==
    /\ resp.op = "delete_session"
    /\ resp.status = 200
    /\ Len(messages) = 1
    /\ Cardinality(drawn.messages) = 2
    /\ Cardinality(chat_sessions) = 1

\* C17: the is_favorite of every stored session is true or false, never
\* null: a create stores false, and an update stores the boolean its payload
\* supplies and otherwise leaves the stored value.
C17_IsFavoriteBoolean ==
    /\ \A r \in chat_sessions : r.is_favorite \in {Some(TRUE), Some(FALSE)}
    /\ \A api_key \in GoodKeys :
          /\ \A session_data \in ChatSessionCreate,
                u \in Uuid4(SessionUuids, drawn.chat_sessions) :
                LET c == CreateSessionOut(api_key, 401, session_data, u) IN
                \A r \in c.db.chat_sessions :
                    r.id = u => r.is_favorite = Some(FALSE)
          /\ \A session_id \in IdStrings, session_data \in ChatSessionUpdate :
                LET out == UpdateSessionOut(api_key, 401, session_id,
                                            session_data)
                    Supplied == "is_favorite" \in session_data.fields_set
                IN  (Supplied => session_data.is_favorite # None) =>
                    \A old \in chat_sessions, new \in out.db.chat_sessions :
                        old.id = new.id =>
                            new.is_favorite =
                                IF old.id = session_id[2] /\ Supplied
                                THEN session_data.is_favorite
                                ELSE old.is_favorite

-----------------------------------------------------------------------------
(* Properties, checked under SpecLimit *)

\* the requests of one client that entered one endpoint function in the
\* minute that starts at tick t0
InWindow(addr, op, t0) ==
    Sum(reached[<<addr, op>>],
        {t \in Ticks : t0 <= t /\ t < t0 + TicksPerMinute})

\* C11 (under SpecLimit): for every client address and route at most 10
\* requests within any one minute enter the route handler; a request over
\* the limit is answered with the rate-limit error, calls no repository
\* method and changes nothing in the store; and a request of one client
\* leaves the counters of the other clients as they are.
C11_TenPerMinute ==
    /\ \A addr \in Addresses, op \in Routes, t0 \in Ticks :
          InWindow(addr, op, t0) <= LimitAmount
    /\ resp.status = 429 => (~resp.repo /\ resp.dbcalls = 0)
    /\ \A addr \in Addresses, session_data \in LimitUpdates :
          LET o == LimitUpdateSessionOut(addr, Some("secret"), 401,
                                         UuidStr(1), session_data)
          IN  /\ ~o.entered => (o.r.status = 429 /\ o.db = CurrentDb)
              /\ \A k \in LimiterKeys :
                    k[2] # addr => o.limiter[k] = limiter[k]

\* C12 (under SpecLimit): a request passes the auth check before the
\* rate-limit check and the rate-limit check before the route handler: a
\* request the auth check rejects is answered by it (also when the client's
\* budget is used up) and leaves every limiter counter as it is; a request
\* over the limit is answered 429, enters no repository method, makes no
\* store round trip and leaves the store as it is; and a request that enters
\* the handler has been counted.
C12_AuthThenLimitThenHandler ==
    \A addr \in Addresses, api_key \in Headers :
    \A code \in CodesFor(api_key) :
        LET Ordered(op, o) ==
                LET k == LimiterKey(op, addr) IN
                IF ~Authorized(api_key, API_KEY)
                THEN /\ o.r.status \in NotAuthenticatedStatus
                     /\ o.limiter = limiter
                     /\ ~o.entered
                     /\ ~o.r.repo
                     /\ o.db = CurrentDb
                ELSE /\ o.limiter[k] = MemoryStorage_incr(limiter[k], now)
                     /\ o.entered = (o.limiter[k].count <= LimitAmount)
                     /\ ~o.entered =>
                           /\ o.r.status = 429
                           /\ ~o.r.repo
                           /\ o.r.dbcalls = 0
                           /\ o.db = CurrentDb
                     /\ o.entered => o.r.status # 429
        IN  /\ \A session_data \in LimitUpdates, session_id \in LimitIds :
                  Ordered("update_session",
                          LimitUpdateSessionOut(addr, api_key, code,
                                                session_id, session_data))
            /\ \A session_data \in LimitCreates, u \in SessionUuids :
                  Ordered("create_session",
                          LimitCreateSessionOut(addr, api_key, code,
                                                session_data, u))

\* C12 witness: a request with a wrong key was answered 401 while the
\* sender's budget for that route was used up (a request of the same window
\* had been answered 429) and a session is stored
C12_Witness ==
    /\ resp.op = "update_session"
    /\ resp.status = 401
    /\ chat_sessions # {}
    /\ \E addr \in Addresses :
          LET b == limiter[LimiterKey("update_session", addr)] IN
          /\ b.count = LimitAmount + 1
          /\ b.expires > now

-----------------------------------------------------------------------------
(* Properties, checked under SpecStartup *)

\* C13 (under SpecStartup): the process comes up, and a request (/health
\* included) is served, only if the store connection string is set, the
\* API-key secret is set and the store was reachable when the schema was
\* initialized.
C13_StartupFailsFast ==
    LET Ready == /\ process.DATABASE_URL # None
                 /\ API_KEY # None
                 /\ process.reachable
    IN  /\ process.state = "up" => Ready
        /\ resp.op # "none" => Ready

-----------------------------------------------------------------------------
(* Properties, checked under SpecClock *)

\* C16 (under SpecClock): every stored session has updated_at >= created_at,
\* and every successful update, also one whose payload supplies no field,
\* sets updated_at to the time of the update, which is not earlier than the
\* value it replaces.
C16_UpdatedAtRefreshed ==
    /\ \A r \in chat_sessions : r.updated_at >= r.created_at
    /\ \A session_id \in IdStrings, session_data \in ChatSessionUpdate :
          LET out == UpdateSessionOut(Some("secret"), 401, session_id,
                                      session_data)
          IN  out.r.status = 200 =>
                LET u == session_id[2]
                    old == CHOOSE r \in chat_sessions : r.id = u
                    new == CHOOSE r \in out.db.chat_sessions : r.id = u
                IN  /\ new.updated_at = now
                    /\ new.updated_at >= old.updated_at
                    /\ new.updated_at >= new.created_at
                    /\ out.r.body.updated_at = now

\* C16 witness: an update that changed no field was answered with an
\* updated_at later than created_at
C16_Witness ==
    /\ resp.op = "update_session"
    /\ resp.status = 200
    /\ resp.body.name = None
    /\ resp.body.is_favorite = FALSE
    /\ resp.body.updated_at > resp.body.created_at
    /\ resp.body.updated_at = now

\* C18 (under SpecClock): a message added without a caller-supplied
\* timestamp is stored and returned with the time of its creation as its
\* timestamp, which is not earlier than the created_at of its session (so of
\* two such messages created at different times the later has the later
\* timestamp).
C18_TimestampIsCreationTime ==
    [][\A session_id \in CanonIds, message_data \in PlainMessages,
          u \in MessageUuids :
          (/\ AddMessage(Some("secret"), 401, session_id, message_data, u)
           /\ resp'.status = 200)
          => /\ resp'.body.timestamp = now
             /\ messages'[Len(messages')].timestamp = now
             /\ \A r \in chat_sessions :
                   r.id = session_id[2] =>
                       messages'[Len(messages')].timestamp >= r.created_at
      ]_vars

\* what a successful add-message on path id S with body message_data leaves,
\* but for the session_id: the body's sender, content and context, stored
\* and returned, and one message more in the list of S
AddedToPath(out, session_id, message_data) ==
    LET m == out.db.messages[Len(out.db.messages)]
        before == get_messages(CurrentDb, session_id, 1, 1)
        after == get_messages(out.db, session_id, 1, 1)
    IN  /\ Len(out.db.messages) = Len(messages) + 1
        /\ m.sender = message_data.sender
        /\ m.content = message_data.content
        /\ m.context = message_data.context
        /\ out.r.body.sender = message_data.sender
        /\ out.r.body.content = message_data.content
        /\ out.r.body.context = message_data.context
        /\ before.r.status = 200
        /\ after.r.status = 200
        /\ after.r.body.total = before.r.body.total + 1

\* C19 as stated (under SpecClock): a successful add-message on path session
\* id S stores and returns a message whose session_id equals S, whatever
\* session_id the body holds, with the body's sender, content and context,
\* and list_by_session(S) then has total one more.
C19_SessionIdEqualsPath ==
    \A session_id \in IdStrings, message_data \in Message,
       u \in Uuid4(MessageUuids, drawn.messages) :
        LET out == AddMessageOut(Some("secret"), 401, session_id,
                                 message_data, u)
        IN  out.r.status = 200 =>
                /\ out.r.body.session_id = session_id
                /\ UuidStr(out.db.messages[Len(out.db.messages)].session_id)
                     = session_id
                /\ AddedToPath(out, session_id, message_data)

\* C19 amended (under SpecClock): the message stored and returned has as
\* session_id the UUID the path string S denotes, returned in the canonical
\* spelling (which is S when S is so spelled), whatever session_id the body
\* holds; the rest as stated.
C19_SessionIdFromPath ==
    \A session_id \in IdStrings, message_data \in Message,
       u \in Uuid4(MessageUuids, drawn.messages) :
        LET out == AddMessageOut(Some("secret"), 401, session_id,
                                 message_data, u)
        IN  out.r.status = 200 =>
                /\ UuidParse(session_id) # None
                /\ out.db.messages[Len(out.db.messages)].session_id
                     = UuidParse(session_id)[1]
                /\ out.r.body.session_id = UuidStr(UuidParse(session_id)[1])
                /\ session_id \in CanonIds =>
                       out.r.body.session_id = session_id
                /\ AddedToPath(out, session_id, message_data)

\* C19 witness: a message whose body named session 1 was added on the path
\* of session 2 and returned with session 2's id
C19_Witness ==
    /\ resp.op = "add_message"
    /\ resp.status = 200
    /\ resp.body.sender = "assistant"
    /\ resp.body.session_id = UuidStr(2)
    /\ messages[Len(messages)].session_id = 2
    /\ Cardinality(chat_sessions) = 2

-----------------------------------------------------------------------------
(* Properties, checked under SpecUpd *)

\* the committed updates of session u that supplied field f, by their place
\* in the commit order
Supplying(u, f) ==
    {i \in DOMAIN commits :
        commits[i].id = u /\ f \in commits[i].data.fields_set}

\* C20 (under SpecUpd): whatever the interleaving of the update requests,
\* each of name and is_favorite of a stored session holds the value of the
\* update that committed last among those that supplied the field; an
\* update that did not supply the field does not overwrite it, and a field
\* no update supplied is as the create left it.
C20_LastCommitWins ==
    \A r \in chat_sessions :
        /\ \A f \in {"name", "is_favorite"} :
              LET I == Supplying(r.id, f) IN
              I # {} =>
                  LET last == CHOOSE i \in I : \A j \in I : j <= i
                  IN  r[f] = commits[last].data[f]
        /\ Supplying(r.id, "is_favorite") = {} => r.is_favorite = Some(FALSE)
        /\ Supplying(r.id, "name") = {} => r.name \in CreateNames

\* C20 witness: two update requests of one session are both between their
\* commit and their refresh; the first committed a name only, the second a
\* favourite flag only, and the row holds both
C20_Witness ==
    /\ Len(commits) = 2
    /\ commits[1].id = commits[2].id
    /\ commits[1].task # commits[2].task
    /\ commits[1].data.fields_set = {"name"}
    /\ commits[1].data.name = Some("b")
    /\ commits[2].data.fields_set = {"is_favorite"}
    /\ commits[2].data.is_favorite = Some(TRUE)
    /\ \A p \in {commits[1].task, commits[2].task} :
          tx[p].pc = "upd_committed"
    /\ \E r \in chat_sessions :
          /\ r.id = commits[1].id
          /\ r.name = Some("b")
          /\ r.is_favorite = Some(TRUE)

\* C21 (under SpecUpd): the response of a successful update has the id of
\* the request and, for every field the payload supplied, the supplied
\* value, also when another update of the same session commits between
\* this update's commit and its refresh.
C21_ResponseShowsPayload ==
    [][\A p \in Tasks :
          (tx[p].pc = "upd_committed" /\ tx'[p] = Idle /\ resp'.status = 200)
          => LET request == tx[p].row[1] IN
             /\ resp'.op = "update_session"
             /\ resp'.body.id = UuidStr(request.id)
             /\ "name" \in request.data.fields_set
                    => resp'.body.name = request.data.name
             /\ "is_favorite" \in request.data.fields_set
                    => Some(resp'.body.is_favorite) = request.data.is_favorite
      ]_vars

-----------------------------------------------------------------------------
(* Properties, checked under SpecRace *)

\* C22 (under SpecRace): an update or a delete of a session that races with
\* a delete of the same session answers success or Not Found, never
\* Internal Error; and of the delete requests for one session id at most
\* one answers the success acknowledgement.
C22_RaceWithDelete ==
    [][/\ resp'.op \in {"update_session", "delete_session"}
              => resp'.status # 500
       /\ \A p \in Tasks :
              (tx[p].pc = "del_selected" /\ tx'[p] = Idle
                   /\ resp'.status = 200)
              => tx[p].row[1] \notin deleted
      ]_vars

-----------------------------------------------------------------------------
(* Properties, checked under SpecList *)

\* C23 (under SpecList): every envelope of list_by_session is consistent
\* with one state of the store: it holds no more messages than its total
\* and exactly min(max(total - (page-1)*page_size, 0), page_size) of them,
\* also when an add-message or delete-session request commits between the
\* count query and the slice query.
C23_EnvelopeConsistent ==
    [][\A p \in Tasks :
          (tx[p].pc = "list_counted" /\ tx'[p] = Idle /\ resp'.status = 200)
          => LET body == resp'.body IN
             /\ Len(body.messages) <= body.total
             /\ Len(body.messages)
                  = Min(Max(body.total - (body.page - 1) * body.page_size, 0),
                        body.page_size)
      ]_vars

\* the messages of pages 1..n, one page after the other
RECURSIVE PagesJoined(_, _)
PagesJoined(pages, n) ==
    IF n = 0 THEN <<>> ELSE PagesJoined(pages, n - 1) \o pages[n]

\* C24 (under SpecList): with a fixed page_size s >= 1 and no write in
\* between, the pages 1..ceil(M/s) of a session with M messages hold every
\* message of the session exactly once, in creation order.
C24_PagesPartition ==
    LET s == listed.page_size
        created == MessagesOf(CurrentDb, listed.id)
        M == Len(created)
        n == IF s >= 1 THEN (M + s - 1) \div s ELSE 0
    IN  (listed.epoch = Epoch /\ s >= 1 /\ 1..n \subseteq DOMAIN listed.pages)
        => PagesJoined(listed.pages, n) = [i \in 1..M |-> created[i].id]

-----------------------------------------------------------------------------
(* Properties, checked under SpecSession *)

\* the requests being served
Active == {p \in Tasks : tx[p].pc \in {"db_yielded", "endpoint_done"}}

\* no two requests in flight share a store session; a session is open only
\* while its request is in flight, so it is closed once the request has
\* ended, however it ended; every session was handed to one request only,
\* and a repository works on the session of its own request
OwnSession ==
    /\ \A p, q \in Active :
          p # q => tx[p].row[1].session # tx[q].row[1].session
    /\ db_sessions.open = {tx[p].row[1].session : p \in Active}
    /\ \A n \in 1..db_sessions.made : db_sessions.uses[n] = 1
    /\ \A p \in Active :
          tx[p].row[1].repo # None
              => tx[p].row[1].repo[1].db = tx[p].row[1].session

\* C25 (under SpecSession): each request gets its own store session that no
\* other concurrent request uses; on every path (success, classified
\* error, unexpected exception) that session is eventually closed; and no
\* repository state is carried from one request to the next.
C25_OwnSessionClosed ==
    /\ []OwnSession
    /\ \A n \in 1..MaxDbSessions :
          (n \in db_sessions.open) ~> (n \notin db_sessions.open)

\* C25 witness: a request that ended with Internal Error has its session
\* closed while two later requests hold a session each
C25_Witness ==
    /\ resp.status = 500
    /\ db_sessions.made = 3
    /\ db_sessions.open = {2, 3}
    /\ \A p \in Tasks : tx[p].pc = "db_yielded"

====
